---- MODULE Spec2Model ----
(***************************************************************************)
(* Model of SimpleRAGPipeline (src/src/rag_pipeline.py).                   *)
(*                                                                         *)
(* One call of run(question) is a sequence of steps separated by the calls *)
(* to the three external collaborators: the corpus retriever, the          *)
(* Wikipedia backend and the language model.  Each collaborator call is a  *)
(* nondeterministic choice among the values it can return and a raised     *)
(* exception.  Python strings are TLA+ strings; the string functions used  *)
(* by the code (in, strip, lower, join, len) are operators computed on     *)
(* them.                                                                   *)
(***************************************************************************)
EXTENDS Integers, Sequences, FiniteSets, TLC

VARIABLES pc, question, retrieved_docs, retriever_results, context_parts,
          needs_wikipedia, wiki, wikipedia_results, full_context, prompt,
          response, answer, returned, error,
          retrieverCalls, wikiCalls, llmCalls, raises

vars == <<pc, question, retrieved_docs, retriever_results, context_parts,
          needs_wikipedia, wiki, wikipedia_results, full_context, prompt,
          response, answer, returned, error,
          retrieverCalls, wikiCalls, llmCalls, raises>>

(***************************************************************************)
(* Bounds                                                                  *)
(***************************************************************************)
\* length of the longest list the corpus retriever returns
MaxDocs == 9

(***************************************************************************)
(* Python string functions                                                 *)
(***************************************************************************)
\* sub in s
Contains(s, sub) ==
    \E i \in 1..(Len(s) - Len(sub) + 1) : SubSeq(s, i, i + Len(sub) - 1) = sub

IsSpace(c) == c \in {" ", "\t", "\n", "\r", "\f"}

RECURSIVE LStripFrom(_, _)
LStripFrom(s, i) ==
    IF i <= Len(s) /\ IsSpace(SubSeq(s, i, i)) THEN LStripFrom(s, i + 1)
    ELSE SubSeq(s, i, Len(s))

RECURSIVE RStripTo(_, _)
RStripTo(s, j) ==
    IF j >= 1 /\ IsSpace(SubSeq(s, j, j)) THEN RStripTo(s, j - 1)
    ELSE SubSeq(s, 1, j)

\* s.strip()
Strip(s) == LStripFrom(RStripTo(s, Len(s)), 1)

Upper == <<"A", "B", "C", "D", "E", "F", "G", "H", "I", "J", "K", "L", "M",
           "N", "O", "P", "Q", "R", "S", "T", "U", "V", "W", "X", "Y", "Z">>
LowerLetters == <<"a", "b", "c", "d", "e", "f", "g", "h", "i", "j", "k", "l", "m",
                  "n", "o", "p", "q", "r", "s", "t", "u", "v", "w", "x", "y", "z">>

LowerChar(c) ==
    IF \E k \in 1..26 : Upper[k] = c
    THEN LowerLetters[CHOOSE k \in 1..26 : Upper[k] = c]
    ELSE c

RECURSIVE LowerFrom(_, _)
LowerFrom(s, i) ==
    IF i > Len(s) THEN ""
    ELSE LowerChar(SubSeq(s, i, i)) \o LowerFrom(s, i + 1)

\* s.lower()
Lower(s) == LowerFrom(s, 1)

RECURSIVE JoinFrom(_, _, _)
JoinFrom(parts, sep, i) ==
    IF i > Len(parts) THEN ""
    ELSE IF i = Len(parts) THEN parts[i]
    ELSE parts[i] \o sep \o JoinFrom(parts, sep, i + 1)

\* sep.join(parts)
Join(parts, sep) == JoinFrom(parts, sep, 1)

\* c * n
RECURSIVE Rep(_, _)
Rep(c, n) ==
    IF n = 0 THEN ""
    ELSE IF n % 2 = 1 THEN c \o Rep(c, n - 1)
    ELSE LET h == Rep(c, n \div 2) IN h \o h

\* Python's None / a value
None == [isNone |-> TRUE, val |-> ""]
Some(s) == [isNone |-> FALSE, val |-> s]
\* truthiness of an Optional[str]
Truthy(o) == ~o.isNone /\ o.val # ""

(***************************************************************************)
(* Literals of the source                                                  *)
(***************************************************************************)
NoDocumentsFound == "No documents found."
NoDocumentsMarker == "No documents found"
CouldNotRetrieve == "Could not retrieve Wikipedia information."
CouldNotRetrieveMarker == "Could not retrieve"
NoRelevantInformation == "No relevant information found."
CouldNotGenerate == "Could not generate answer."
CorpusLabel == "Document corpus results:\n"
WikipediaLabel == "Wikipedia results:\n"
MaxFormatted == 8
VeryLittle == 100
ShortResults == 200
LimitedResults == 500
WikiConfig == [top_k_results |-> 3, lang |-> "en"]
NoWiki == [top_k_results |-> 0, lang |-> ""]

general_knowledge_indicators ==
    <<"what is", "who is", "define", "explain", "history of",
      "when was", "where is", "how does", "what are">>

(***************************************************************************)
(* Documents: langchain Document, seen through hasattr(d, "metadata"),     *)
(* d.metadata (a dict, here a set of <<key, value>> pairs) and             *)
(* d.page_content.                                                         *)
(***************************************************************************)
Doc(hasMetadata, metadata, page_content) ==
    [hasMetadata |-> hasMetadata, metadata |-> metadata, page_content |-> page_content]

\* meta.get(key)
Get(meta, key) ==
    IF \E p \in meta : p[1] = key
    THEN Some((CHOOSE p \in meta : p[1] = key)[2])
    ELSE None

\* title = meta.get("title") or meta.get("source") or f"doc_{i}"
Title(d, i) ==
    LET meta == IF d.hasMetadata THEN d.metadata ELSE {}
    IN  IF Truthy(Get(meta, "title")) THEN Get(meta, "title").val
        ELSE IF Truthy(Get(meta, "source")) THEN Get(meta, "source").val
        ELSE "doc_" \o ToString(i)

\* f"[{i}] {title}\n{d.page_content}"
Render(d, i) == "[" \o ToString(i) \o "] " \o Title(d, i) \o "\n" \o d.page_content

\* docs[:8]
Head8(docs) == SubSeq(docs, 1, IF Len(docs) < MaxFormatted THEN Len(docs) ELSE MaxFormatted)

\* the formatting half of _get_retriever_results, applied to what invoke returned
Format(docs) ==
    IF Len(docs) = 0 THEN NoDocumentsFound
    ELSE LET first == Head8(docs)
             merged == [i \in 1..Len(first) |-> Render(first[i], i)]
         IN  Join(merged, "\n\n")

(***************************************************************************)
(* The sufficiency decision                                                *)
(***************************************************************************)
\* any(indicator in question_lower for indicator in general_knowledge_indicators)
HasGeneralKnowledgePattern(q) ==
    LET question_lower == Lower(q)
    IN  \E k \in 1..Len(general_knowledge_indicators) :
            Contains(question_lower, general_knowledge_indicators[k])

\* mutant of ShouldUseWikipedia: the test for short results is lost
ShouldUseWikipediaNoShortTest(q, rr) ==
    IF rr = "" \/ Contains(rr, NoDocumentsMarker) THEN TRUE
    ELSE HasGeneralKnowledgePattern(q) /\ Len(Strip(rr)) < LimitedResults

\* _should_use_wikipedia(question, retriever_results)
ShouldUseWikipedia(q, rr) ==
    IF rr = "" \/ Contains(rr, NoDocumentsMarker) THEN TRUE
    ELSE IF Len(Strip(rr)) < ShortResults THEN TRUE
    ELSE HasGeneralKnowledgePattern(q) /\ Len(Strip(rr)) < LimitedResults

\* mutant of NeedsWikipedia: the decision looks at lengths and patterns only
NeedsWikipediaLengthOnly(q, rr) ==
    \/ Len(Strip(rr)) < ShortResults
    \/ HasGeneralKnowledgePattern(q) /\ Len(Strip(rr)) < LimitedResults

\* needs_wikipedia of run
NeedsWikipedia(q, rr) ==
    \/ Contains(rr, NoDocumentsMarker)
    \/ Len(Strip(rr)) < VeryLittle
    \/ ShouldUseWikipedia(q, rr)

(***************************************************************************)
(* Context assembly and answer extraction                                  *)
(***************************************************************************)
\* context_parts after the corpus test of run
CorpusParts(rr) ==
    IF rr # "" /\ ~Contains(rr, NoDocumentsMarker)
    THEN <<CorpusLabel \o rr>>
    ELSE <<>>

\* mutant of WithWikipedia: the test that the text is not empty is lost
WithWikipediaNoEmptyTest(parts, wr) ==
    IF ~Contains(wr, CouldNotRetrieveMarker)
    THEN Append(parts, WikipediaLabel \o wr)
    ELSE parts

\* context_parts after the Wikipedia test of run
WithWikipedia(parts, wr) ==
    IF wr # "" /\ ~Contains(wr, CouldNotRetrieveMarker)
    THEN Append(parts, WikipediaLabel \o wr)
    ELSE parts

\* full_context
FullContext(parts) ==
    IF Len(parts) > 0 THEN Join(parts, "\n\n") ELSE NoRelevantInformation

\* the prompt f-string
Prompt(ctx, q) ==
    "You are a helpful RAG agent. Prefer 'retriever' for user-provided docs; use 'wikipedia' for general knowledge. Return only the final useful answer.\n\nAvailable information:\n"
    \o ctx \o "\n\nQuestion: " \o q
    \o "\n\nProvide a comprehensive answer based on the available information:"

\* getattr(response, "content", None)
GetContent(resp) == IF resp.hasContent THEN resp.content ELSE None

\* mutant of ExtractAnswer: the sentinel replaces None only, not ""
ExtractAnswerNoneOnly(resp) ==
    IF ~GetContent(resp).isNone THEN GetContent(resp).val ELSE CouldNotGenerate

\* answer = getattr(response, "content", None) or "Could not generate answer."
ExtractAnswer(resp) ==
    IF Truthy(GetContent(resp)) THEN GetContent(resp).val ELSE CouldNotGenerate

\* mutant of WikiResult: the exception of the backend's query is not caught
WikiResultPropagates(out) == [raised |-> out.raised, val |-> out.val]

\* the try/except of _get_wikipedia_results around wiki.run(query):
\* what the adapter hands back for an outcome of the backend's query
WikiResult(out) ==
    IF out.raised THEN [raised |-> FALSE, val |-> CouldNotRetrieve]
    ELSE [raised |-> FALSE, val |-> out.val]

\* the record run returns
Result(q, docs, ans) == [question |-> q, retrieved_docs |-> docs, answer |-> ans]

(***************************************************************************)
(* Inputs: the questions asked and what the collaborators can answer       *)
(***************************************************************************)
Questions == {"What is RAG?", "List the files", "so what ARE these"}

\* page contents: short, under 200, in [200, 500), at least 500, the same
\* two with the words of the empty-result sentinel inside, and one whose
\* length is under 200 only once trimmed
Short == "Paris is the capital of France."
Under200 == Rep("a", 120)
Under500 == Rep("b", 250)
Over500 == Rep("c", 600)
Under500Marked == Rep("b", 120) \o " No documents found in the archive " \o Rep("b", 120)
Over500Marked == Rep("c", 300) \o " No documents found in the archive " \o Rep("c", 300)
Padded == Rep("d", 150) \o Rep(" ", 100) \o "\n"

One(content) == <<Doc(TRUE, {<<"title", "Guide">>}, content)>>

\* a list of MaxDocs documents with every shape of metadata
ManyDocs ==
    [i \in 1..MaxDocs |->
        LET body == "passage " \o ToString(i)
        IN  CASE i % 5 = 1 -> Doc(TRUE, {<<"title", "Guide">>, <<"source", "a.pdf">>}, body)
              [] i % 5 = 2 -> Doc(TRUE, {<<"source", "b.pdf">>}, body)
              [] i % 5 = 3 -> Doc(TRUE, {<<"title", "">>, <<"source", "c.pdf">>}, body)
              [] i % 5 = 4 -> Doc(FALSE, {}, body)
              [] OTHER -> Doc(TRUE, {}, body)]

\* the lists retriever.invoke can return
DocLists ==
    {<<>>, One(Short), One(Under200), One(Under500), One(Over500),
     One(Under500Marked), One(Over500Marked), One(Padded), ManyDocs}

\* retriever.invoke(query): a list, or an exception
RetrieverOutcomes ==
    {[raised |-> TRUE, docs |-> <<>>]} \cup {[raised |-> FALSE, docs |-> d] : d \in DocLists}

\* wiki.run(query): a text, or an exception
WikiTexts ==
    {"", "Page: Paris\nSummary: Paris is the capital of France.",
     "Page: Errors\nSummary: Could not retrieve is a common error message."}
WikiOutcomes ==
    {[raised |-> TRUE, val |-> ""]} \cup {[raised |-> FALSE, val |-> t] : t \in WikiTexts}

\* llm.invoke(prompt): a response with or without a content attribute, or an exception
Responses ==
    {[hasContent |-> FALSE, content |-> None],
     [hasContent |-> TRUE, content |-> None],
     [hasContent |-> TRUE, content |-> Some("")],
     [hasContent |-> TRUE, content |-> Some("RAG combines retrieval and generation.")]}
NoResponse == [hasContent |-> FALSE, content |-> None]
LlmOutcomes ==
    {[raised |-> TRUE, resp |-> NoResponse]} \cup {[raised |-> FALSE, resp |-> r] : r \in Responses}

(***************************************************************************)
(* State machine                                                           *)
(***************************************************************************)
Init ==
    /\ pc = "idle"
    /\ question = ""
    /\ retrieved_docs = <<>>
    /\ retriever_results = ""
    /\ context_parts = <<>>
    /\ needs_wikipedia = FALSE
    /\ wiki = NoWiki
    /\ wikipedia_results = ""
    /\ full_context = ""
    /\ prompt = ""
    /\ response = NoResponse
    /\ answer = ""
    /\ returned = <<>>
    /\ error = ""
    /\ retrieverCalls = 0
    /\ wikiCalls = 0
    /\ llmCalls = 0
    /\ raises = {}

\* an exception leaves run: nothing is returned
Raise(what) ==
    /\ pc' = "raised"
    /\ error' = what

\* a caller calls run(question); every call starts from fresh locals
Run(q) ==
    /\ pc \in {"idle", "returned", "raised"}
    /\ pc' = "fetch_docs"
    /\ question' = q
    /\ retrieved_docs' = <<>>
    /\ retriever_results' = ""
    /\ context_parts' = <<>>
    /\ needs_wikipedia' = FALSE
    /\ wiki' = NoWiki
    /\ wikipedia_results' = ""
    /\ full_context' = ""
    /\ prompt' = ""
    /\ response' = NoResponse
    /\ answer' = ""
    /\ returned' = <<>>
    /\ error' = ""
    /\ retrieverCalls' = 0
    /\ wikiCalls' = 0
    /\ llmCalls' = 0
    /\ raises' = {}

\* Step 1: retrieved_docs = self.retriever.invoke(question)
FetchDocs(out) ==
    /\ pc = "fetch_docs"
    /\ retrieverCalls' = retrieverCalls + 1
    /\ IF out.raised
       THEN /\ Raise("retriever")
            /\ raises' = raises \cup {"retriever"}
            /\ UNCHANGED retrieved_docs
       ELSE /\ retrieved_docs' = out.docs
            /\ pc' = "get_retriever_results"
            /\ UNCHANGED <<error, raises>>
    /\ UNCHANGED <<question, retriever_results, context_parts, needs_wikipedia, wiki,
                   wikipedia_results, full_context, prompt, response, answer, returned,
                   wikiCalls, llmCalls>>

\* Step 2: retriever_results = self._get_retriever_results(question),
\* which invokes the retriever itself and formats what that call returns
GetRetrieverResults(out) ==
    /\ pc = "get_retriever_results"
    /\ retrieverCalls' = retrieverCalls + 1
    /\ IF out.raised
       THEN /\ Raise("retriever")
            /\ raises' = raises \cup {"retriever"}
            /\ UNCHANGED retriever_results
       ELSE /\ retriever_results' = Format(out.docs)
            /\ pc' = "evaluate"
            /\ UNCHANGED <<error, raises>>
    /\ UNCHANGED <<question, retrieved_docs, context_parts, needs_wikipedia, wiki,
                   wikipedia_results, full_context, prompt, response, answer, returned,
                   wikiCalls, llmCalls>>

\* Steps 3 and 4: the corpus section and the decision needs_wikipedia
Evaluate ==
    /\ pc = "evaluate"
    /\ context_parts' = CorpusParts(retriever_results)
    /\ needs_wikipedia' = NeedsWikipedia(question, retriever_results)
    /\ pc' = IF needs_wikipedia' THEN "wiki_build" ELSE "assemble"
    /\ UNCHANGED <<question, retrieved_docs, retriever_results, wiki, wikipedia_results,
                   full_context, prompt, response, answer, returned, error,
                   retrieverCalls, wikiCalls, llmCalls, raises>>

\* _get_wikipedia_results, before its try: WikipediaQueryRun(api_wrapper=
\* WikipediaAPIWrapper(top_k_results=3, lang="en")), which can raise
WikiBuild(ok) ==
    /\ pc = "wiki_build"
    /\ IF ok
       THEN /\ wiki' = WikiConfig
            /\ pc' = "wiki_run"
            /\ UNCHANGED <<error, raises>>
       ELSE /\ Raise("wiki_build")
            /\ raises' = raises \cup {"wiki_build"}
            /\ UNCHANGED wiki
    /\ UNCHANGED <<question, retrieved_docs, retriever_results, context_parts,
                   needs_wikipedia, wikipedia_results, full_context, prompt, response,
                   answer, returned, retrieverCalls, wikiCalls, llmCalls>>

\* _get_wikipedia_results, its try/except around wiki.run(query), then the
\* Wikipedia section of run
WikiRun(out) ==
    /\ pc = "wiki_run"
    /\ wikiCalls' = wikiCalls + 1
    /\ raises' = IF out.raised THEN raises \cup {"wiki_run"} ELSE raises
    /\ LET r == WikiResult(out)
       IN  IF r.raised
           THEN /\ Raise("wiki_run")
                /\ UNCHANGED <<wikipedia_results, context_parts>>
           ELSE /\ wikipedia_results' = r.val
                /\ context_parts' = WithWikipedia(context_parts, r.val)
                /\ pc' = "assemble"
                /\ UNCHANGED error
    /\ UNCHANGED <<question, retrieved_docs, retriever_results, needs_wikipedia, wiki,
                   full_context, prompt, response, answer, returned,
                   retrieverCalls, llmCalls>>

\* Steps 5 and 6: full_context and the prompt
Assemble ==
    /\ pc = "assemble"
    /\ full_context' = FullContext(context_parts)
    /\ prompt' = Prompt(full_context', question)
    /\ pc' = "synthesize"
    /\ UNCHANGED <<question, retrieved_docs, retriever_results, context_parts,
                   needs_wikipedia, wiki, wikipedia_results, response, answer, returned,
                   error, retrieverCalls, wikiCalls, llmCalls, raises>>

\* response = self.llm.invoke(prompt), the answer and the returned record
Synthesize(out) ==
    /\ pc = "synthesize"
    /\ llmCalls' = llmCalls + 1
    /\ IF out.raised
       THEN /\ Raise("llm")
            /\ raises' = raises \cup {"llm"}
            /\ UNCHANGED <<response, answer, returned>>
       ELSE /\ response' = out.resp
            /\ answer' = ExtractAnswer(out.resp)
            /\ returned' = <<Result(question, retrieved_docs, answer')>>
            /\ pc' = "returned"
            /\ UNCHANGED <<error, raises>>
    /\ UNCHANGED <<question, retrieved_docs, retriever_results, context_parts,
                   needs_wikipedia, wiki, wikipedia_results, full_context, prompt,
                   retrieverCalls, wikiCalls>>

Next ==
    \/ \E q \in Questions : Run(q)
    \/ \E out \in RetrieverOutcomes : FetchDocs(out)
    \/ \E out \in RetrieverOutcomes : GetRetrieverResults(out)
    \/ Evaluate
    \/ \E ok \in BOOLEAN : WikiBuild(ok)
    \/ \E out \in WikiOutcomes : WikiRun(out)
    \/ Assemble
    \/ \E out \in LlmOutcomes : Synthesize(out)

Spec == Init /\ [][Next]_vars

(***************************************************************************)
(* Properties                                                              *)
(***************************************************************************)
\* needs_wikipedia has been computed in this run
Evaluated ==
    \/ pc \in {"wiki_build", "wiki_run", "assemble", "synthesize", "returned"}
    \/ pc = "raised" /\ error \in {"wiki_build", "wiki_run", "llm"}

\* context_parts is final in this run
PartsFinal ==
    \/ pc \in {"assemble", "synthesize", "returned"}
    \/ pc = "raised" /\ error = "llm"

\* full_context has been computed in this run
Assembled ==
    \/ pc \in {"synthesize", "returned"}
    \/ pc = "raised" /\ error = "llm"

TrimmedLen == Len(Strip(retriever_results))

\* the lower-cased question contains one of the nine patterns
QuestionHasPattern ==
    \E ind \in {"what is", "who is", "define", "explain", "history of",
                "when was", "where is", "how does", "what are"} :
        Contains(Lower(question), ind)

\* the context holds the section built from the primary text
HasCorpusSection ==
    \E i \in 1..Len(context_parts) : context_parts[i] = CorpusLabel \o retriever_results

\* the context holds the section built from the fallback text
HasWikipediaSection ==
    \E i \in 1..Len(context_parts) : context_parts[i] = WikipediaLabel \o wikipedia_results

\* C1 (as claimed): when the trimmed primary text has 200 to 499 characters,
\* needs_wikipedia is true exactly when the lower-cased question contains one
\* of the nine patterns, whatever the primary text contains.
C1_PatternDecides ==
    (Evaluated /\ TrimmedLen >= ShortResults /\ TrimmedLen < LimitedResults)
        => (needs_wikipedia <=> QuestionHasPattern)

\* C2 (as claimed): when the trimmed primary text has at least 500 characters,
\* needs_wikipedia is false and the fallback backend is not invoked in the run.
C2_LongNeverFallsBack ==
    (Evaluated /\ TrimmedLen >= LimitedResults)
        => (~needs_wikipedia /\ wikiCalls = 0)

\* C3 (as claimed): no failure inside _get_wikipedia_results, building the
\* wrapper included, ever leaves it: run is never aborted by the fallback.
C3_AdapterNeverRaises ==
    ~(pc = "raised" /\ error \in {"wiki_build", "wiki_run"})

\* C4 (as claimed): in a run that returns, the primary source was fetched once
\* and the primary text is the rendering of the first 8 of the returned
\* retrieved items.
C4_SameFetch ==
    pc = "returned"
        => /\ retrieverCalls = 1
           /\ retriever_results = Format(returned[1].retrieved_docs)

\* C5 (as claimed): within one run the retriever is invoked at most once, the
\* fallback backend at most once and only after the primary fetch and a true
\* decision, the language model at most once and only after the context is
\* assembled.
C5_EachCollaboratorOnce ==
    /\ retrieverCalls <= 1
    /\ wikiCalls <= 1
    /\ llmCalls <= 1
    /\ wikiCalls > 0 => (retrieverCalls > 0 /\ Evaluated /\ needs_wikipedia)
    /\ llmCalls > 0 => Assembled

\* C6 (as claimed): the context is the sentinel exactly when no section
\* qualifies, the Wikipedia section qualifying exactly when the fallback was
\* consulted and its text does not contain "Could not retrieve", the empty
\* text included.
C6_SentinelIffNoSectionAsClaimed ==
    Assembled =>
        ((full_context = NoRelevantInformation)
            <=> /\ Contains(retriever_results, NoDocumentsMarker)
                /\ ~(wikiCalls > 0 /\ ~Contains(wikipedia_results, CouldNotRetrieveMarker)))

\* C6 (amended): the context is the sentinel exactly when no section
\* qualifies, the corpus section qualifying exactly when the primary text does
\* not contain "No documents found" and the Wikipedia section exactly when the
\* fallback was consulted and its text is not empty and does not contain
\* "Could not retrieve"; a qualifying section is in the context.
C6_SentinelIffNoSection ==
    Assembled =>
        LET corpusQualifies == ~Contains(retriever_results, NoDocumentsMarker)
            wikipediaQualifies ==
                /\ wikiCalls > 0
                /\ wikipedia_results # ""
                /\ ~Contains(wikipedia_results, CouldNotRetrieveMarker)
        IN  /\ (full_context = NoRelevantInformation)
                <=> (~corpusQualifies /\ ~wikipediaQualifies)
            /\ corpusQualifies <=> HasCorpusSection
            /\ wikipediaQualifies <=> HasWikipediaSection

\* C6 witness: the fallback was consulted, answered the empty text, and the
\* context is the sentinel
C6_Witness ==
    /\ Assembled
    /\ wikiCalls = 1
    /\ "wiki_run" \notin raises
    /\ wikipedia_results = ""
    /\ full_context = NoRelevantInformation

\* C7: a raise of the retriever or of the language model leaves run with no
\* record, and after a raise of the retriever neither the fallback backend nor
\* the language model is invoked; a raise of the fallback backend's query
\* alone does not leave run, which returns a record.
C7_FatalAndNonFatal ==
    /\ pc = "raised" => returned = <<>>
    /\ "retriever" \in raises
        => (pc = "raised" /\ error = "retriever" /\ wikiCalls = 0 /\ llmCalls = 0)
    /\ "llm" \in raises => (pc = "raised" /\ error = "llm")
    /\ raises = {"wiki_run"} => pc \in {"assemble", "synthesize", "returned"}
    /\ pc = "returned" => Len(returned) = 1

\* C7 witness: the backend's query raised and run returned a record
C7_Witness ==
    /\ pc = "returned"
    /\ raises = {"wiki_run"}
    /\ Len(returned) = 1

\* C8: a run that returns gives a record with exactly the fields question,
\* retrieved_docs and answer; question is the input; answer is the response's
\* content when that is a non-empty text and "Could not generate answer."
\* when the response has no content attribute, a None content or an empty
\* one; it is never empty.
C8_RecordAndAnswer ==
    pc = "returned" =>
        /\ Len(returned) = 1
        /\ DOMAIN returned[1] = {"question", "retrieved_docs", "answer"}
        /\ returned[1].question = question
        /\ returned[1].retrieved_docs = retrieved_docs
        /\ returned[1].answer # ""
        /\ returned[1].answer =
             IF response.hasContent /\ ~response.content.isNone /\ response.content.val # ""
             THEN response.content.val
             ELSE CouldNotGenerate

\* C8 witness: the response's content was the empty text and the answer is
\* the sentinel
C8_Witness ==
    /\ pc = "returned"
    /\ response.hasContent
    /\ response.content = Some("")
    /\ returned[1].answer = CouldNotGenerate

\* C9: when the primary text is the sentinel "No documents found." or its
\* trimmed length is under 200, needs_wikipedia is true whatever the question,
\* and a run that gets as far as its context has invoked the fallback backend.
C9_ShortAlwaysFallsBack ==
    (Evaluated /\ (retriever_results = NoDocumentsFound \/ TrimmedLen < ShortResults))
        => /\ needs_wikipedia
           /\ PartsFinal => wikiCalls = 1

\* C9 witness: a primary text of 100 to 199 characters, a question with none
\* of the patterns, and the fallback backend invoked
C9_Witness ==
    /\ PartsFinal
    /\ TrimmedLen >= VeryLittle
    /\ TrimmedLen < ShortResults
    /\ ~QuestionHasPattern
    /\ needs_wikipedia
    /\ wikiCalls = 1

\* C10: whenever the corpus section is left out of the context the fallback
\* backend has been invoked in the run; the context is the sentinel only when
\* the fallback was attempted and gave no usable text; the language model is
\* still invoked, once, in a run that returns with that context.
C10_NoCorpusMeansFallback ==
    /\ (PartsFinal /\ ~HasCorpusSection) => (needs_wikipedia /\ wikiCalls = 1)
    /\ (Assembled /\ full_context = NoRelevantInformation)
        => /\ wikiCalls = 1
           /\ ~HasWikipediaSection
           /\ wikipedia_results = "" \/ Contains(wikipedia_results, CouldNotRetrieveMarker)
    /\ (pc = "returned" /\ full_context = NoRelevantInformation) => llmCalls = 1

\* C10 witness: a document whose content holds the words "No documents found"
\* is left out, the fallback raised, and the model was invoked on the sentinel
C10_Witness ==
    /\ pc = "returned"
    /\ retriever_results # NoDocumentsFound
    /\ Contains(retriever_results, NoDocumentsMarker)
    /\ TrimmedLen >= LimitedResults
    /\ full_context = NoRelevantInformation
    /\ "wiki_run" \in raises
    /\ llmCalls = 1

====
